---- MODULE Spec2Model ----
(***************************************************************************)
(* A model of the text parsers and of the scraper of eaip-lib:             *)
(*   - eaip/hours.py      get_operating_hours_from_string, OperatingHours  *)
(*   - eaip/airspace      Airspace.lateral / lateral_circle /              *)
(*                        lateral_lines, Line.start / Line.end,            *)
(*                        Arc.centre, Circle.centre / Circle.radius,       *)
(*                        Airspace.__vertical_matcher, Level, Altitude     *)
(*   - eaip/__init__.py   __get_current_version, get_airfield and its      *)
(*                        file-system cache; Airfield.icao                 *)
(*                                                                         *)
(* A text is a sequence of atoms (strings).  An atom is a run of           *)
(* characters that the regular expressions of the source either take or    *)
(* leave as a whole: "Mon", "-", ", ", "0800", "H24", "circle", ...        *)
(* Python's None is the empty sequence <<>> where a value is a sequence,   *)
(* and the record [kind |-> "None"] where a value is an object.  An        *)
(* exception leaving a function is the record [kind |-> "raise", exc].     *)
(* List indices keep Python's base 0; a Python list l is a TLA+ sequence   *)
(* read as l[i + 1].                                                       *)
(***************************************************************************)
EXTENDS Integers, Sequences, FiniteSets, TLC

VARIABLES
    \* get_operating_hours_from_string
    text,           \* string_to_convert
    pc,             \* "start" | "scan" | "done"
    raw,            \* opening_hours_raw, flattened
    pos,            \* index (base 1) in raw of the next identifier of the loop
    is_24_hr,
    is_daylight,
    hours,
    summer_hours,
    is_summer,
    day_range,
    current_hours,
    result,         \* what the call returned or raised
    \* Airspace: the lateral limits
    data0,          \* self.data[0]: designation, newline, description
    lateral_circle, \* the cached properties, Unset until first read
    lateral_lines,
    lateral,
    ends,           \* Line.end of each element of lateral_lines, Unset until read
    starts,         \* Line.start of the elements of lateral_lines read so far
    centres,        \* Arc.centre of the elements of lateral_lines read so far
    circle_centre,  \* Circle.centre and Circle.radius of lateral_circle,
    circle_radius,  \*   Unset until read
    \* Airspace: a vertical limit
    limit,          \* the text given to __vertical_matcher
    vertical,       \* what __vertical_matcher returned, Unset before the call
    height,         \* the cached properties of the returned object
    above_ground_level,
    \* __get_current_version
    month_status,   \* what the server answers for the index page of each day
    reqs,           \* the state of the task of each day
    completed,      \* the days whose task is done, in the order of completion
    vpc,            \* "start" | "wait" | "done"
    version,        \* what the call returned
    \* get_airfield
    cache_dir,      \* os.path.isdir(cache_dir)
    cache_files,    \* the content of each file of cache_dir, by path
    calls           \* the calls of get_airfield: arguments, position, locals

hoursVars == <<text, pc, raw, pos, is_24_hr, is_daylight, hours, summer_hours,
               is_summer, day_range, current_hours, result>>

lateralVars == <<data0, lateral_circle, lateral_lines, lateral, ends>>

geogVars == <<starts, centres, circle_centre, circle_radius>>

verticalVars == <<limit, vertical, height, above_ground_level>>

versionVars == <<month_status, reqs, completed, vpc, version>>

airfieldVars == <<cache_dir, cache_files, calls>>

netVars == <<versionVars, airfieldVars>>

vars == <<hoursVars, lateralVars, geogVars, verticalVars, netVars>>

----------------------------------------------------------------------------
(* Values shared by the parsers *)

None == [kind |-> "None"]

Raise(e) == [kind |-> "raise", exc |-> e]

Unset == [kind |-> "unset"]

\* the variables of a parser that a specification does not run
HoursIdle ==
    /\ text = <<>>
    /\ pc = "idle"
    /\ raw = <<>>
    /\ pos = 0
    /\ is_24_hr = FALSE
    /\ is_daylight = FALSE
    /\ hours = <<>>
    /\ summer_hours = <<>>
    /\ is_summer = FALSE
    /\ day_range = <<0, 7>>
    /\ current_hours = <<<<>>, <<>>>>
    /\ result = Unset

LateralIdle ==
    /\ data0 = <<>>
    /\ lateral_circle = Unset
    /\ lateral_lines = Unset
    /\ lateral = Unset
    /\ ends = <<>>

GeogIdle ==
    /\ starts = <<>>
    /\ centres = <<>>
    /\ circle_centre = Unset
    /\ circle_radius = Unset

VerticalIdle ==
    /\ limit = <<>>
    /\ vertical = Unset
    /\ height = Unset
    /\ above_ground_level = Unset

VersionIdle ==
    /\ month_status = <<>>
    /\ reqs = <<>>
    /\ completed = <<>>
    /\ vpc = "idle"
    /\ version = Unset

AirfieldIdle ==
    /\ cache_dir = FALSE
    /\ cache_files = <<>>
    /\ calls = <<>>

NetIdle == VersionIdle /\ AirfieldIdle

Min(a, b) == IF a < b THEN a ELSE b

\* s[a:b] of Python, a and b in base 0, clamped to the list
Slice(s, a, b) == SubSeq(s, a + 1, Min(b, Len(s)))

\* the first index of s holding an element of set, 0 when there is none
FirstIn(s, set) ==
    IF \E i \in 1..Len(s) : s[i] \in set
    THEN CHOOSE i \in 1..Len(s) : s[i] \in set /\ \A j \in 1..(i - 1) : s[j] \notin set
    ELSE 0

RECURSIVE SplitAt(_, _)
\* str.split(sep) and re.split(pattern, s) on atoms: s cut at every atom of seps
SplitAt(s, seps) ==
    LET i == FirstIn(s, seps)
    IN  IF i = 0 THEN <<s>>
        ELSE <<SubSeq(s, 1, i - 1)>> \o SplitAt(SubSeq(s, i + 1, Len(s)), seps)

RECURSIVE Flatten(_)
\* [data for sublist in l for data in sublist]
Flatten(l) == IF l = <<>> THEN <<>> ELSE Head(l) \o Flatten(Tail(l))

----------------------------------------------------------------------------
(* eaip/hours.py *)

days == <<"Mon", "Tue", "Wed", "Thu", "Fri", "Sat", "Sun", "PH">>

DayNames == {days[i] : i \in 1..Len(days)}

\* the separators of the day group of the pattern, and of re.split at line 126
DaySeps == {"-", ", ", " & ", " and "}

ListSeps == {", ", " and ", " & "}

\* the four-digit atoms of the model and int() of each
DigitValue ==
    [a \in {"0000", "0700", "0800", "0860", "0900", "1600", "1630", "2359", "2400"} |->
        CASE a = "0000" -> 0
          [] a = "0700" -> 700
          [] a = "0800" -> 800
          [] a = "0860" -> 860
          [] a = "0900" -> 900
          [] a = "1600" -> 1600
          [] a = "1630" -> 1630
          [] a = "2359" -> 2359
          [] a = "2400" -> 2400]

DigitAtoms == DOMAIN DigitValue

\* (\d{4}|SS)
TimeAtoms == DigitAtoms \cup {"SS"}

\* datetime.time as <<hour, minute, second, microsecond>>
TimeMin == <<0, 0, 0, 0>>

TimeMax == <<23, 59, 59, 999999>>

\* the number of groups of the pattern: one findall match is a tuple of 9
NGroups == 9

\* a findall match whose group k holds v, every other group ''
Token(k, v) == [n \in 1..NGroups |-> IF n = k THEN v ELSE <<>>]

RECURSIVE DayGroupEnd(_, _)
\* (?:(?:Mon|..|PH)(?:-|, | & | and )?)+ from the day name at i, greedy:
\* the index after the group
DayGroupEnd(t, i) ==
    LET j == IF i + 1 <= Len(t) /\ t[i + 1] \in DaySeps THEN i + 2 ELSE i + 1
    IN  IF j <= Len(t) /\ t[j] \in DayNames THEN DayGroupEnd(t, j) ELSE j

\* the end of the line holding position i: the index of the next "\n", or Len + 1
EndOfLine(t, i) ==
    IF \E j \in i..Len(t) : t[j] = "\n"
    THEN CHOOSE j \in i..Len(t) : t[j] = "\n" /\ \A k \in i..(j - 1) : t[k] # "\n"
    ELSE Len(t) + 1

RECURSIVE FindAllFrom(_, _)
\* re.findall(pattern, t) scanning from atom i: the alternatives in the
\* order of the pattern, an atom that starts no match is skipped
FindAllFrom(t, i) ==
    IF i > Len(t) THEN <<>>
    ELSE CASE t[i] = "H24" ->
                <<Token(1, <<"H24">>)>> \o FindAllFrom(t, i + 1)
           [] t[i] = "Daylight" /\ i + 1 <= Len(t) /\ t[i + 1] # "\n" ->
                <<Token(2, <<"Daylight">>)>> \o FindAllFrom(t, EndOfLine(t, i))
           [] t[i] = "Summer" ->
                <<Token(3, <<"Summer">>)>> \o FindAllFrom(t, i + 1)
           [] t[i] = "Winter" ->
                <<Token(4, <<"Winter">>)>> \o FindAllFrom(t, i + 1)
           [] t[i] \in DayNames ->
                <<Token(5, SubSeq(t, i, DayGroupEnd(t, i) - 1))>>
                    \o FindAllFrom(t, DayGroupEnd(t, i))
           [] t[i] \in TimeAtoms /\ i + 2 <= Len(t) /\ t[i + 1] = "-"
                   /\ t[i + 2] \in TimeAtoms ->
                <<[n \in 1..NGroups |-> IF n = 6 THEN <<t[i]>>
                                        ELSE IF n = 7 THEN <<t[i + 2]>> ELSE <<>>]>>
                    \o FindAllFrom(t, i + 3)
           [] t[i] = "(" ->
                <<Token(8, <<"(">>)>> \o FindAllFrom(t, i + 1)
           [] t[i] = ")" ->
                <<Token(9, <<")">>)>> \o FindAllFrom(t, i + 1)
           [] OTHER -> FindAllFrom(t, i + 1)

FindAll(t) == FindAllFrom(t, 1)

\* a variant of HasTokens that asks for two matches
HasTokensTwoMatches(r) == Len(r) >= 2 * NGroups

\* `if len(opening_hours_raw) >= 2`
HasTokens(r) == Len(r) >= 2

\* x in days, for a string x of atoms
IsDay(x) == Len(x) = 1 /\ x[1] \in DayNames

\* days.index(x), base 0
DaysIndex(x) == (CHOOSE i \in 1..Len(days) : days[i] = x[1]) - 1

\* the body of `for day_item_raw in day_list_raw` for one item:
\* the day_range after it, or <<>> when days.index raises ValueError
DayItem(dr, item) ==
    LET day_range_raw == SplitAt(item, {"-"})
    IN  IF Len(day_range_raw) > 1
        THEN IF IsDay(day_range_raw[1]) /\ IsDay(day_range_raw[2])
             THEN <<DaysIndex(day_range_raw[1]), DaysIndex(day_range_raw[2])>>
             ELSE <<>>
        ELSE IF IsDay(item) THEN <<DaysIndex(item), DaysIndex(item)>>
        ELSE dr

RECURSIVE DayRangeList(_, _)
\* day_range_list built from day_list_raw, starting with day_range dr;
\* <<>> as an element stands for the ValueError raised at that item
DayRangeList(dr, items) ==
    IF items = <<>> THEN <<>>
    ELSE LET d == DayItem(dr, Head(items))
         IN  IF d = <<>> THEN <<d>> ELSE <<d>> \o DayRangeList(d, Tail(items))

\* identifier.isdigit()
IsDigit(id) == Len(id) = 1 /\ id[1] \in DigitAtoms

\* datetime.datetime.strptime(identifier, '%H%M').time(), <<>> for ValueError
\* (a minute field of 60 or more leaves unconverted data)
StrpTime(id) ==
    LET v == DigitValue[id[1]]
    IN  IF v \div 100 < 24 /\ v % 100 < 60 THEN <<v \div 100, v % 100, 0, 0>> ELSE <<>>

\* all(current_hours): a datetime.time is always true
AllSet(ch) == ch[1] # <<>> /\ ch[2] # <<>>

\* a variant of CommitDays that leaves the last day out
CommitDaysExclusive(dr) == dr[1]..(dr[2] - 1)

\* range(day_range[0], day_range[1] + 1)
CommitDays(dr) == dr[1]..dr[2]

\* a variant of WritesSummer that always takes the regular week
WritesSummerNever(summer) == FALSE

\* `summer_hours if is_summer else hours`: TRUE when the summer week is written
WritesSummer(summer) == summer

\* a variant of Assign that keeps the range a day already holds
AssignKeepFirst(l, dr, ch) ==
    [d \in 1..Len(l) |-> IF (d - 1) \in CommitDays(dr) /\ l[d] = <<>> THEN ch ELSE l[d]]

\* the list after `l[day] = ch for day in range(...)`
Assign(l, dr, ch) == [d \in 1..Len(l) |-> IF (d - 1) \in CommitDays(dr) THEN ch ELSE l[d]]

\* the index (base 1) of the first non-empty identifier of r at or after p, 0 if none
NextIdentifier(r, p) ==
    IF \E i \in p..Len(r) : r[i] # <<>>
    THEN CHOOSE i \in p..Len(r) : r[i] # <<>> /\ \A j \in p..(i - 1) : r[j] = <<>>
    ELSE 0

\* OperatingWeek(*args): a dataclass of 8 required fields
OperatingWeek(args) == IF Len(args) = 8 THEN args ELSE <<>>

\* the number of copies of the full-day range made for is_24_hr
FullDayCopies == 15

\* OperatingHours(*hs, is_24_hr=h24, is_daylight=dl)
OperatingHours(hs, h24, dl) ==
    LET args == IF h24 THEN [i \in 1..FullDayCopies |-> <<TimeMin, TimeMax>>] ELSE hs
        week == OperatingWeek(Slice(args, 0, 8))
        summer == OperatingWeek(Slice(args, 8, 16))
    IN  IF week = <<>> \/ summer = <<>> THEN Raise("TypeError")
        ELSE [kind |-> "OperatingHours", hours |-> week, summer |-> summer,
              is_24_hr |-> h24, is_daylight |-> dl]

----------------------------------------------------------------------------
(* The texts the parser is run on: words joined by single spaces.  A word   *)
(* is a string of atoms; the newline word is joined without spaces.         *)

MaxWords == 3

Words ==
    { <<"H24">>, <<"Daylight">>, <<"(", "Summer", ")">>, <<"Winter">>,
      <<"Mon", "-", "Fri">>, <<"Sat", ", ", "Sun">>, <<"PH", "-">>,
      <<"0800", "-", "1630">>, <<"0700", "-", "SS">>, <<"0900", "-", "2400">>,
      <<"0860", "-", "0900">>,
      <<"x">>, <<"\n">> }

RECURSIVE Join(_)
Join(ws) ==
    IF ws = <<>> THEN <<>>
    ELSE IF Len(ws) = 1 THEN ws[1]
    ELSE IF ws[1] = <<"\n">> \/ ws[2] = <<"\n">> THEN ws[1] \o Join(Tail(ws))
    ELSE ws[1] \o <<" ">> \o Join(Tail(ws))

FreeTexts == {Join(ws) : ws \in UNION {[1..n -> Words] : n \in 0..MaxWords}}

\* "D1-D2": first and last day in Mon..Sun, D1 not after D2
WeekRanges == {<<a, b>> \in (0..6) \X (0..6) : a <= b}

Selector(r) == <<days[r[1] + 1], "-", days[r[2] + 1]>>

\* the clock times of the range texts, and the pairs "hhmm-hhmm" made of them
ClockAtoms == {"0000", "0700", "1630", "2359"}

Pairs == ClockAtoms \X ClockAtoms

PairWord(p) == <<p[1], "-", p[2]>>

\* "D1-D2 hhmm-hhmm"
RangeText(r, p) == Join(<<Selector(r), PairWord(p)>>)

RangeTexts == {RangeText(r, p) : r \in WeekRanges, p \in Pairs}

\* "<day-range> <pair1> (Summer) <pair2> (Winter)"
SeasonalText(r, p1, p2) ==
    Join(<<Selector(r), PairWord(p1), <<"(", "Summer", ")">>,
           PairWord(p2), <<"(", "Winter", ")">>>>)

SeasonPairs == {<<"0800", "1630">>, <<"0700", "1600">>}

SeasonalTexts == {SeasonalText(r, p1, p2) : r \in WeekRanges, p1 \in SeasonPairs, p2 \in SeasonPairs}

\* a selector declaring two day-ranges, "R1, R2" / "R1 and R2" / "R1 & R2",
\* followed by one or two time pairs
ListRanges == {<<0, 4>>, <<5, 5>>, <<5, 6>>, <<2, 3>>}

ItemText(r) == IF r[1] = r[2] THEN <<days[r[1] + 1]>> ELSE Selector(r)

ListText(r1, sep, r2, ps) ==
    Join(<<ItemText(r1) \o <<sep>> \o ItemText(r2)>> \o [i \in 1..Len(ps) |-> PairWord(ps[i])])

PairSeqs == {<<p>> : p \in SeasonPairs} \cup {<<p, q>> : p \in SeasonPairs, q \in SeasonPairs}

ListTexts ==
    {ListText(r1, sep, r2, ps) : r1 \in ListRanges, sep \in ListSeps, r2 \in ListRanges, ps \in PairSeqs}

\* "<season word> <pair1> <season word> <pair2>": a word that opens or closes
\* the summer season before each of two time pairs
SeasonWords == {<<"(">>, <<"Summer">>, <<")">>, <<"Winter">>}

FlagText(a, p1, b, p2) == Join(<<a, PairWord(p1), b, PairWord(p2)>>)

FlagTexts == {FlagText(a, p1, b, p2) : a \in SeasonWords, p1 \in SeasonPairs,
                                       b \in SeasonWords, p2 \in SeasonPairs}

HoursTexts == FreeTexts \cup RangeTexts \cup SeasonalTexts \cup ListTexts \cup FlagTexts

----------------------------------------------------------------------------
(* get_operating_hours_from_string as a process: the tokenising up to the   *)
(* loop, one step per execution of the loop body (the identifiers that are  *)
(* '' are skipped by `if identifier`), and the return.                      *)

NoHours == [d \in 1..8 |-> <<>>]

HoursInit ==
    /\ text \in HoursTexts
    /\ pc = "start"
    /\ raw = <<>>
    /\ pos = 0
    /\ is_24_hr = FALSE
    /\ is_daylight = FALSE
    /\ hours = NoHours
    /\ summer_hours = NoHours
    /\ is_summer = FALSE
    /\ day_range = <<0, 7>>
    /\ current_hours = <<<<>>, <<>>>>
    /\ result = Unset

\* lines 101-121
Tokenize ==
    /\ pc = "start"
    /\ raw' = Flatten(FindAll(text))
    /\ IF HasTokens(raw')
       THEN /\ is_24_hr' = (raw'[1] = <<"H24">>)
            /\ is_daylight' = (raw'[2] = <<"Daylight">>)
            /\ pos' = 3
            /\ pc' = "scan"
            /\ result' = result
       ELSE /\ pc' = "done"
            /\ result' = None
            /\ UNCHANGED <<is_24_hr, is_daylight, pos>>
    /\ UNCHANGED <<text, hours, summer_hours, is_summer, day_range, current_hours>>

\* lines 122-150, one identifier
ScanStep ==
    /\ pc = "scan"
    /\ NextIdentifier(raw, pos) # 0
    /\ LET p == NextIdentifier(raw, pos)
           identifier == raw[p]
           day_list_raw == SplitAt(identifier, ListSeps)
           day_range_list == DayRangeList(day_range, day_list_raw)
           dr == day_range_list[Len(day_range_list)]
           summer == IF identifier \in {<<"(">>, <<"Summer">>} THEN TRUE
                     ELSE IF identifier \in {<<")">>, <<"Winter">>} THEN FALSE
                     ELSE is_summer
           stores == IsDigit(identifier) /\ DigitValue[identifier[1]] < 2400
           t == IF stores THEN StrpTime(identifier) ELSE <<>>
           ch == IF ~stores THEN current_hours
                 ELSE IF current_hours[1] = <<>> THEN <<t, current_hours[2]>>
                 ELSE <<current_hours[1], t>>
       IN  IF dr = <<>> \/ (stores /\ t = <<>>)
           THEN /\ pc' = "done"
                /\ result' = Raise("ValueError")
                /\ pos' = p
                /\ UNCHANGED <<hours, summer_hours, is_summer, day_range, current_hours>>
           ELSE /\ pos' = p + 1
                /\ is_summer' = summer
                /\ IF AllSet(ch)
                   THEN /\ day_range' = day_range_list[1]
                        /\ hours' = IF WritesSummer(summer) THEN hours
                                    ELSE Assign(hours, day_range_list[1], ch)
                        /\ summer_hours' = IF WritesSummer(summer)
                                           THEN Assign(summer_hours, day_range_list[1], ch)
                                           ELSE summer_hours
                        /\ current_hours' = <<<<>>, <<>>>>
                   ELSE /\ day_range' = dr
                        /\ current_hours' = ch
                        /\ UNCHANGED <<hours, summer_hours>>
                /\ UNCHANGED <<pc, result>>
    /\ UNCHANGED <<text, raw, is_24_hr, is_daylight>>

\* lines 152-156
Return ==
    /\ pc = "scan"
    /\ NextIdentifier(raw, pos) = 0
    /\ result' = OperatingHours(hours \o summer_hours, is_24_hr, is_daylight)
    /\ pc' = "done"
    /\ UNCHANGED <<text, raw, pos, is_24_hr, is_daylight, hours, summer_hours,
                   is_summer, day_range, current_hours>>

HoursNext ==
    \/ Tokenize /\ UNCHANGED <<lateralVars, geogVars, verticalVars, netVars>>
    \/ ScanStep /\ UNCHANGED <<lateralVars, geogVars, verticalVars, netVars>>
    \/ Return /\ UNCHANGED <<lateralVars, geogVars, verticalVars, netVars>>

InitHours == HoursInit /\ LateralIdle /\ GeogIdle /\ VerticalIdle /\ NetIdle

SpecHours == InitHours /\ [][HoursNext]_vars

----------------------------------------------------------------------------
(* eaip/airspace: the lateral limits.  A description is a sequence of words *)
(* separated by single spaces; the atom "-" is the delimiter " - " with its *)
(* two spaces.  Where a pattern has `.+` between two literals that are      *)
(* whole words, at least one word stands between them; `.+` directly before *)
(* a digit group or after a coordinate may be the separating space alone.   *)

\* the coordinate words of the model and the groups the patterns capture
\* from them: (\d{2})(\d{2})(\d{2})([NS]) and (\d{3})(\d{2})(\d{2})([EW])
LatGroups ==
    [a \in {"512345N", "500000N", "515959S", "000000S", "912345N"} |->
        CASE a = "512345N" -> <<"51", "23", "45", "N">>
          [] a = "500000N" -> <<"50", "00", "00", "N">>
          [] a = "515959S" -> <<"51", "59", "59", "S">>
          [] a = "000000S" -> <<"00", "00", "00", "S">>
          [] a = "912345N" -> <<"91", "23", "45", "N">>]

LonGroups ==
    [a \in {"0001234W", "0010000E", "0000000W", "1795959W", "1810000E"} |->
        CASE a = "0001234W" -> <<"000", "12", "34", "W">>
          [] a = "0010000E" -> <<"001", "00", "00", "E">>
          [] a = "0000000W" -> <<"000", "00", "00", "W">>
          [] a = "1795959W" -> <<"179", "59", "59", "W">>
          [] a = "1810000E" -> <<"181", "00", "00", "E">>]

\* float() of the digit groups above
NumValue ==
    [g \in {"00", "12", "23", "34", "45", "50", "51", "59", "91",
             "000", "001", "179", "181"} |->
        CASE g \in {"00", "000"} -> 0
          [] g = "001" -> 1
          [] g = "91" -> 91
          [] g = "179" -> 179
          [] g = "181" -> 181
          [] g = "12" -> 12
          [] g = "23" -> 23
          [] g = "34" -> 34
          [] g = "45" -> 45
          [] g = "50" -> 50
          [] g = "51" -> 51
          [] g = "59" -> 59]

\* the words matching \d+(?:\.\d+)? as a whole
NumberAtoms == {"2", "10", "2.5"}

\* what `.+(\d+(?:\.\d+)?) NM` captures from a number word: the greedy `.+`
\* before the group leaves it the last digit only
LastDigit ==
    [a \in NumberAtoms |-> CASE a = "2" -> "2" [] a = "10" -> "0" [] a = "2.5" -> "5"]

IsLat(a) == a \in DOMAIN LatGroups

IsLon(a) == a \in DOMAIN LonGroups

Max(S) == CHOOSE x \in S : \A y \in S : y <= x

\* geopy's Point.parse_degrees(degrees, arcminutes, arcseconds, direction),
\* in arc-seconds (decimal degrees times 3600)
ParseDegrees(deg, mn, sec, dir) ==
    LET v == NumValue[deg] * 3600 + NumValue[mn] * 60 + NumValue[sec]
    IN  IF dir \in {"N", "E"} THEN v ELSE 0 - v

\* self.data[0].split('\n', 1)[1]
Descriptor(d0) ==
    LET i == FirstIn(d0, {"\n"})
    IN  IF i = 0 THEN Raise("IndexError")
        ELSE [kind |-> "str", v |-> SubSeq(d0, i + 1, Len(d0))]

\* the circle pattern searched in t: the groups 1..9 of the match, <<>> when
\* there is none.  The quantifiers are greedy: the last "circle", then the
\* last number before " NM ", then the last coordinates that leave a match.
CircleSearch(t) ==
    LET Ks == {k \in 1..(Len(t) - 1) : IsLat(t[k]) /\ IsLon(t[k + 1])}
        Ms == {m \in 1..Len(t) : t[m] = "centred" /\ \E k \in Ks : k >= m + 2}
        Ns == {n \in 1..(Len(t) - 1) :
                  t[n] \in NumberAtoms /\ t[n + 1] = "NM" /\ \E m \in Ms : m >= n + 3}
        Cs == {c \in 2..Len(t) : t[c] = "circle" /\ \E n \in Ns : n >= c + 1}
    IN  IF Cs = {} \/ \E i \in 1..Len(t) : t[i] = "\n" THEN <<>>
        ELSE LET c == Max(Cs)
                 n == Max({x \in Ns : x >= c + 1})
                 k == Max(Ks)
             IN  <<LastDigit[t[n]]>> \o LatGroups[t[k]] \o LonGroups[t[k + 1]]

\* the Line pattern
LineSearch(d) ==
    IF Len(d) = 2 /\ IsLat(d[1]) /\ IsLon(d[2])
    THEN LatGroups[d[1]] \o LonGroups[d[2]]
    ELSE <<>>

\* the Arc pattern: the tail from the radius on is anchored at the end
ArcSearch(d) ==
    LET n == Len(d) - 8
    IN  IF /\ n >= 7
           /\ IsLat(d[1]) /\ IsLon(d[2]) /\ d[3] = "thence"
           /\ d[4] \in {"clockwise", "anti-clockwise"}
           /\ \E a \in 6..(n - 2) : d[a] = "arc"
           /\ d[n] \in NumberAtoms /\ d[n + 1] = "NM"
           /\ d[n + 2] = "centred" /\ d[n + 3] = "on"
           /\ IsLat(d[n + 4]) /\ IsLon(d[n + 5]) /\ d[n + 6] = "to"
           /\ IsLat(d[n + 7]) /\ IsLon(d[n + 8])
        THEN LatGroups[d[1]] \o LonGroups[d[2]] \o <<d[4], d[n]>>
                 \o LatGroups[d[n + 4]] \o LonGroups[d[n + 5]]
                 \o LatGroups[d[n + 7]] \o LonGroups[d[n + 8]]
        ELSE <<>>

\* the Parallel pattern
ParallelSearch(d) ==
    IF /\ Len(d) >= 4 /\ IsLat(d[1]) /\ IsLon(d[2])
       /\ \E k \in 3..(Len(d) - 1) : d[k] = "line of latitude"
    THEN LatGroups[d[1]] \o LonGroups[d[2]]
    ELSE <<>>

\* a variant of types_patterns with the Parallel pattern before the Arc pattern
types_patterns_ParallelFirst == <<"Line", "Parallel", "Arc">>

\* types_patterns, in the order of the dict
types_patterns == <<"Line", "Arc", "Parallel">>

\* p.search(d) for the pattern of type ty
Search(ty, d) ==
    CASE ty = "Line" -> LineSearch(d)
      [] ty = "Arc" -> ArcSearch(d)
      [] ty = "Parallel" -> ParallelSearch(d)

\* ((t, p.search(d)) for t, p in types_patterns.items() if p.search(d))
Matching(d) == SelectSeq(types_patterns, LAMBDA ty : Search(ty, d) # <<>>)

\* next((geog(i, match, self) for i, (geog, match) in enumerate(...)), None):
\* the first pair of the enumeration, whose number i is 0
Geog(d) ==
    IF Matching(d) = <<>> THEN None
    ELSE [kind |-> Matching(d)[1], index |-> 0, data |-> Search(Matching(d)[1], d)]

\* a variant of Kept that keeps every element
KeptAll(l) == l

\* [geog for geog in l if geog is not None]
Kept(l) == SelectSeq(l, LAMBDA g : g.kind # "None")

\* Airspace.lateral_lines
LateralLines(d0) ==
    IF Descriptor(d0).kind = "raise" THEN Descriptor(d0)
    ELSE LET descriptors == SplitAt(Descriptor(d0).v, {"-"})
         IN  [kind |-> "list",
              v |-> Kept([i \in 1..Len(descriptors) |-> Geog(descriptors[i])])]

\* Airspace.lateral_circle
LateralCircle(d0) ==
    IF Descriptor(d0).kind = "raise" THEN Descriptor(d0)
    ELSE IF CircleSearch(Descriptor(d0).v) = <<>> THEN None
    ELSE [kind |-> "Circle", data |-> CircleSearch(Descriptor(d0).v)]

\* bool(x) for what lateral_circle returns: None is false, an object of a
\* class without __bool__ and __len__ is true
Truthy(x) == x.kind # "None"

\* a variant of LateralChoice that prefers the segments when there are any
LateralChoiceLinesFirst(circle, lines) ==
    IF circle.kind = "raise" THEN circle
    ELSE IF lines.v # <<>> THEN lines
    ELSE IF Truthy(circle) THEN circle ELSE lines

\* `self.lateral_circle if self.lateral_circle else self.lateral_lines`
LateralChoice(circle, lines) ==
    IF circle.kind = "raise" THEN circle
    ELSE IF Truthy(circle) THEN circle ELSE lines

\* Line.start
Line_start(seg) ==
    <<ParseDegrees(seg.data[1], seg.data[2], seg.data[3], seg.data[4]),
      ParseDegrees(seg.data[5], seg.data[6], seg.data[7], seg.data[8])>>

\* Line.end: self.airspace.lateral_lines[self.index + 1].start
Line_end(seg, lines) ==
    IF seg.index + 1 < Len(lines)
    THEN [kind |-> "value", v |-> Line_start(lines[(seg.index + 1) + 1])]
    ELSE Raise("IndexError")

(* The inputs: a designation, and a description made of at most             *)
(* MaxDescriptors descriptors joined by " - ".                              *)

MaxDescriptors == 3

PointA == <<"512345N", "0001234W">>

PointB == <<"500000N", "0010000E">>

PointC == <<"515959S", "0000000W">>

ArcWords(dir, filler, num, centre, to) ==
    <<"thence", dir>> \o filler \o <<num, "NM", "centred", "on">> \o centre \o <<"to">> \o to

Descriptors ==
    { PointA, PointB, PointC,
      PointA \o ArcWords("clockwise", <<"by the", "arc", "of a", "circle", "radius">>,
                         "10", PointB, PointC),
      PointB \o ArcWords("anti-clockwise", <<"along the", "line of latitude", "arc", "radius">>,
                         "2.5", PointC, PointA),
      PointB \o <<"thence", "east", "along the", "line of latitude", "to">>,
      <<"thence", "along the", "coast">>,
      <<>>,
      <<"A", "circle", "10", "NM", "radius", "centred", "on">> \o PointC }

RECURSIVE JoinDescriptors(_)
JoinDescriptors(ds) ==
    IF ds = <<>> THEN <<>>
    ELSE IF Len(ds) = 1 THEN ds[1]
    ELSE ds[1] \o <<"-">> \o JoinDescriptors(Tail(ds))

Descriptions ==
    {JoinDescriptors(ds) : ds \in UNION {[1..n -> Descriptors] : n \in 0..MaxDescriptors}}

LateralInputs == {<<"EGKK CTR">>} \cup {<<"EGKK CTR", "\n">> \o d : d \in Descriptions}

LateralInit ==
    /\ data0 \in LateralInputs
    /\ lateral_circle = Unset
    /\ lateral_lines = Unset
    /\ lateral = Unset
    /\ ends = <<>>

NoEnds(lines) == IF lines.kind = "list" THEN [i \in 1..Len(lines.v) |-> Unset] ELSE <<>>

\* the first read of Airspace.lateral_circle
AccessLateralCircle ==
    /\ lateral_circle.kind = "unset"
    /\ lateral_circle' = LateralCircle(data0)
    /\ UNCHANGED <<data0, lateral_lines, lateral, ends>>

\* the first read of Airspace.lateral_lines
AccessLateralLines ==
    /\ lateral_lines.kind = "unset"
    /\ lateral_lines' = LateralLines(data0)
    /\ ends' = NoEnds(lateral_lines')
    /\ UNCHANGED <<data0, lateral_circle, lateral>>

\* the first read of Airspace.lateral: it reads lateral_circle and, when that
\* is false, lateral_lines
AccessLateral ==
    /\ lateral.kind = "unset"
    /\ LET circle == IF lateral_circle.kind = "unset" THEN LateralCircle(data0)
                     ELSE lateral_circle
           reads == circle.kind # "raise" /\ ~Truthy(circle)
           lines == IF lateral_lines.kind = "unset" THEN LateralLines(data0)
                    ELSE lateral_lines
       IN  /\ lateral_circle' = circle
           /\ lateral_lines' = IF reads THEN lines ELSE lateral_lines
           /\ ends' = IF reads /\ lateral_lines.kind = "unset" THEN NoEnds(lines) ELSE ends
           /\ lateral' = LateralChoice(circle, lines)
    /\ UNCHANGED data0

\* the first read of the end of the element at position i (base 1) of lateral_lines
AccessEnd(i) ==
    /\ lateral_lines.kind = "list"
    /\ i \in 1..Len(lateral_lines.v)
    /\ ends[i].kind = "unset"
    /\ ends' = [ends EXCEPT ![i] = Line_end(lateral_lines.v[i], lateral_lines.v)]
    /\ UNCHANGED <<data0, lateral_circle, lateral_lines, lateral>>

LateralNext ==
    \/ AccessLateralCircle /\ UNCHANGED <<hoursVars, geogVars, verticalVars, netVars>>
    \/ AccessLateralLines /\ UNCHANGED <<hoursVars, geogVars, verticalVars, netVars>>
    \/ AccessLateral /\ UNCHANGED <<hoursVars, geogVars, verticalVars, netVars>>
    \/ (\E i \in 1..(MaxDescriptors + 1) : AccessEnd(i)) /\ UNCHANGED <<hoursVars, geogVars, verticalVars, netVars>>

InitLateral == LateralInit /\ GeogIdle /\ HoursIdle /\ VerticalIdle /\ NetIdle

SpecLateral == InitLateral /\ [][LateralNext]_vars

----------------------------------------------------------------------------
(* eaip/airspace/lateral: the coordinates and the radius read from the      *)
(* objects of lateral_lines and lateral_circle.  A coordinate is in         *)
(* arc-seconds, a radius in tenths of a nautical mile.                      *)

\* float() of the strings a radius group can capture, in tenths
FloatTenths ==
    [a \in {"0", "2", "5", "10", "2.5"} |->
        CASE a = "0" -> 0 [] a = "2" -> 20 [] a = "5" -> 50 [] a = "10" -> 100 [] a = "2.5" -> 25]

\* Circle.radius: float(self.data[1])
Circle_radius(obj) == FloatTenths[obj.data[1]]

\* Circle.centre: groups()[1:5] and groups()[5:9]
Circle_centre(obj) ==
    <<ParseDegrees(obj.data[2], obj.data[3], obj.data[4], obj.data[5]),
      ParseDegrees(obj.data[6], obj.data[7], obj.data[8], obj.data[9])>>

\* Arc.centre: groups()[10:14] and groups()[14:18]
Arc_centre(seg) ==
    <<ParseDegrees(seg.data[11], seg.data[12], seg.data[13], seg.data[14]),
      ParseDegrees(seg.data[15], seg.data[16], seg.data[17], seg.data[18])>>

MaxSegments == 2

\* the points of the inputs: every latitude word with every longitude word
GeogPoints == {<<la, lo>> : la \in DOMAIN LatGroups, lo \in DOMAIN LonGroups}

\* "A circle <number> NM radius centred on <point>"
CircleText(num, pt) == <<"A", "circle", num, "NM", "radius", "centred", "on">> \o pt

GeogDescriptors ==
    GeogPoints
      \cup {PointA \o ArcWords("clockwise", <<"by the", "arc", "of a", "circle", "radius">>,
                               "10", c, PointB) : c \in GeogPoints}
      \cup {PointC \o <<"thence", "east", "along the", "line of latitude", "to">>}

GeogDescriptions ==
    {JoinDescriptors(ds) : ds \in UNION {[1..n -> GeogDescriptors] : n \in 1..MaxSegments}}
      \cup {CircleText(num, pt) : num \in NumberAtoms, pt \in GeogPoints}

GeogInputs == {<<"EGKK CTR", "\n">> \o d : d \in GeogDescriptions}

GeogInit ==
    /\ data0 \in GeogInputs
    /\ lateral_circle = Unset
    /\ lateral_lines = Unset
    /\ lateral = Unset
    /\ ends = <<>>
    /\ starts = <<>>
    /\ centres = <<>>
    /\ circle_centre = Unset
    /\ circle_radius = Unset

\* the first read of the start of the element at position i (base 1) of lateral_lines
AccessStart(i) ==
    /\ lateral_lines.kind = "list"
    /\ i \in 1..Len(lateral_lines.v)
    /\ i \notin DOMAIN starts
    /\ starts' = (i :> Line_start(lateral_lines.v[i])) @@ starts
    /\ UNCHANGED <<lateralVars, centres, circle_centre, circle_radius>>

\* the first read of the centre of the Arc at position i (base 1) of lateral_lines
AccessArcCentre(i) ==
    /\ lateral_lines.kind = "list"
    /\ i \in 1..Len(lateral_lines.v)
    /\ lateral_lines.v[i].kind = "Arc"
    /\ i \notin DOMAIN centres
    /\ centres' = (i :> Arc_centre(lateral_lines.v[i])) @@ centres
    /\ UNCHANGED <<lateralVars, starts, circle_centre, circle_radius>>

\* the first read of lateral_circle.centre
AccessCircleCentre ==
    /\ lateral_circle.kind = "Circle"
    /\ circle_centre.kind = "unset"
    /\ circle_centre' = [kind |-> "value", v |-> Circle_centre(lateral_circle)]
    /\ UNCHANGED <<lateralVars, starts, centres, circle_radius>>

\* the first read of lateral_circle.radius
AccessCircleRadius ==
    /\ lateral_circle.kind = "Circle"
    /\ circle_radius.kind = "unset"
    /\ circle_radius' = [kind |-> "value", v |-> Circle_radius(lateral_circle)]
    /\ UNCHANGED <<lateralVars, starts, centres, circle_centre>>

GeogNext ==
    \/ AccessLateralCircle /\ UNCHANGED <<hoursVars, geogVars, verticalVars, netVars>>
    \/ AccessLateralLines /\ UNCHANGED <<hoursVars, geogVars, verticalVars, netVars>>
    \/ (\E i \in 1..(MaxSegments + 1) : AccessStart(i)) /\ UNCHANGED <<hoursVars, verticalVars, netVars>>
    \/ (\E i \in 1..(MaxSegments + 1) : AccessArcCentre(i)) /\ UNCHANGED <<hoursVars, verticalVars, netVars>>
    \/ AccessCircleCentre /\ UNCHANGED <<hoursVars, verticalVars, netVars>>
    \/ AccessCircleRadius /\ UNCHANGED <<hoursVars, verticalVars, netVars>>

InitGeog == GeogInit /\ HoursIdle /\ VerticalIdle /\ NetIdle

SpecGeog == InitGeog /\ [][GeogNext]_vars

----------------------------------------------------------------------------
(* eaip/airspace: the vertical limits.  A limit text is a sequence of the   *)
(* atoms below; a digit is one atom, " FT " carries its two spaces.         *)

DigitOf == [c \in {"0", "1", "5"} |-> CASE c = "0" -> 0 [] c = "1" -> 1 [] c = "5" -> 5]

Digits == DOMAIN DigitOf

\* s matches \d+ as a whole
AllDigits(s) == Len(s) >= 1 /\ \A i \in 1..Len(s) : s[i] \in Digits

RECURSIVE IntOf(_)
\* int(s) for a string of digits
IntOf(s) ==
    IF s = <<>> THEN 0
    ELSE 10 * IntOf(SubSeq(s, 1, Len(s) - 1)) + DigitOf[s[Len(s)]]

\* ^(\d+) FT (ALT|AGL)$ : the groups of the match, <<>> when there is none
AltitudeSearch(t) ==
    IF /\ Len(t) >= 3
       /\ AllDigits(SubSeq(t, 1, Len(t) - 2))
       /\ t[Len(t) - 1] = " FT "
       /\ t[Len(t)] \in {"ALT", "AGL"}
    THEN <<SubSeq(t, 1, Len(t) - 2), <<t[Len(t)]>>>>
    ELSE <<>>

\* ^(?:(SFC|FL)(\d+)?)$ : group 2 is None (<<>>) when the digits are absent
LevelSearch(t) ==
    IF /\ Len(t) >= 1
       /\ t[1] \in {"SFC", "FL"}
       /\ (Len(t) = 1 \/ AllDigits(Tail(t)))
    THEN <<<<t[1]>>, Tail(t)>>
    ELSE <<>>

\* types_patterns of __vertical_matcher, in the order of the dict
vertical_patterns == <<"Altitude", "Level">>

VerticalSearch(ty, t) ==
    CASE ty = "Altitude" -> AltitudeSearch(t)
      [] ty = "Level" -> LevelSearch(t)

\* Airspace.__vertical_matcher
VerticalMatcher(t) ==
    LET matching == SelectSeq(vertical_patterns, LAMBDA ty : VerticalSearch(ty, t) # <<>>)
    IN  IF matching = <<>> THEN None
        ELSE [kind |-> matching[1], data |-> VerticalSearch(matching[1], t)]

\* Level.height: int(0 if self.data[1] == 'SFC' else self.data[2])
Level_height(obj) ==
    IF obj.data[1] = <<"SFC">> THEN [kind |-> "value", v |-> 0]
    ELSE IF obj.data[2] = <<>> THEN Raise("TypeError")
    ELSE [kind |-> "value", v |-> IntOf(obj.data[2])]

\* Altitude.height: int(self.data[1])
Altitude_height(obj) == [kind |-> "value", v |-> IntOf(obj.data[1])]

\* Altitude.above_ground_level: self.data[2] == 'AGL'
Altitude_above_ground_level(obj) == [kind |-> "value", v |-> (obj.data[2] = <<"AGL">>)]

MaxLimitLen == 4

LimitAtoms == Digits \cup {"SFC", "FL", " FT ", "ALT", "AGL", "x"}

Limits == UNION {[1..n -> LimitAtoms] : n \in 0..MaxLimitLen}

VerticalInit ==
    /\ limit \in Limits
    /\ vertical = Unset
    /\ height = Unset
    /\ above_ground_level = Unset

\* the call of __vertical_matcher(limit)
CallVerticalMatcher ==
    /\ vertical.kind = "unset"
    /\ vertical' = VerticalMatcher(limit)
    /\ UNCHANGED <<limit, height, above_ground_level>>

\* the first read of .height of the returned object
AccessHeight ==
    /\ vertical.kind \in {"Altitude", "Level"}
    /\ height.kind = "unset"
    /\ height' = IF vertical.kind = "Level" THEN Level_height(vertical)
                 ELSE Altitude_height(vertical)
    /\ UNCHANGED <<limit, vertical, above_ground_level>>

\* the first read of .above_ground_level of a returned Altitude
AccessAboveGroundLevel ==
    /\ vertical.kind = "Altitude"
    /\ above_ground_level.kind = "unset"
    /\ above_ground_level' = Altitude_above_ground_level(vertical)
    /\ UNCHANGED <<limit, vertical, height>>

VerticalNext ==
    \/ CallVerticalMatcher /\ UNCHANGED <<hoursVars, lateralVars, geogVars, netVars>>
    \/ AccessHeight /\ UNCHANGED <<hoursVars, lateralVars, geogVars, netVars>>
    \/ AccessAboveGroundLevel /\ UNCHANGED <<hoursVars, lateralVars, geogVars, netVars>>

InitVertical == VerticalInit /\ HoursIdle /\ LateralIdle /\ GeogIdle /\ NetIdle

SpecVertical == InitVertical /\ [][VerticalNext]_vars

----------------------------------------------------------------------------
(* eaip/__init__.py: __get_current_version.  A date of the current month is *)
(* its day number; one task per day asks for the index page of that day,    *)
(* and the caller takes the results in the order the tasks complete.        *)

\* the number of days of the current month
MonthLen == 4

MonthDays == 1..MonthLen

\* resp.status of the index page
Statuses == {200, 404}

Date(d) == [kind |-> "date", day |-> d]

\* does_eaip_exist(d, url): d if resp.status == 200 else None
DoesEaipExist(d, status) == IF status = 200 THEN Date(d) ELSE None

VersionInit ==
    /\ month_status \in [MonthDays -> Statuses]
    /\ reqs = <<>>
    /\ completed = <<>>
    /\ vpc = "start"
    /\ version = Unset

\* lines 36-49: one task per day of the month
CreateTasks ==
    /\ vpc = "start"
    /\ reqs' = [d \in MonthDays |-> "pending"]
    /\ vpc' = "wait"
    /\ UNCHANGED <<month_status, completed, version>>

\* the task of day d completes while the caller waits in as_completed
TaskDone(d) ==
    /\ vpc = "wait"
    /\ reqs[d] = "pending"
    /\ reqs' = [reqs EXCEPT ![d] = "done"]
    /\ completed' = Append(completed, d)
    /\ UNCHANGED <<month_status, vpc, version>>

\* lines 51-56: the caller takes the next completed task
NextCompleted ==
    /\ vpc = "wait"
    /\ completed # <<>>
    /\ LET d == Head(completed)
           r == DoesEaipExist(d, month_status[d])
       IN  IF r.kind # "None"
           THEN /\ reqs' = [x \in MonthDays |-> IF reqs[x] = "pending" THEN "cancelled"
                                                 ELSE reqs[x]]
                /\ version' = r
                /\ vpc' = "done"
           ELSE UNCHANGED <<reqs, version, vpc>>
    /\ completed' = Tail(completed)
    /\ UNCHANGED month_status

\* the loop over as_completed ends: the function returns None
NoVersion ==
    /\ vpc = "wait"
    /\ completed = <<>>
    /\ \A d \in MonthDays : reqs[d] = "done"
    /\ version' = None
    /\ vpc' = "done"
    /\ UNCHANGED <<month_status, reqs, completed>>

VersionNext ==
    \/ CreateTasks /\ UNCHANGED <<hoursVars, lateralVars, geogVars, verticalVars, airfieldVars>>
    \/ (\E d \in MonthDays : TaskDone(d))
           /\ UNCHANGED <<hoursVars, lateralVars, geogVars, verticalVars, airfieldVars>>
    \/ NextCompleted /\ UNCHANGED <<hoursVars, lateralVars, geogVars, verticalVars, airfieldVars>>
    \/ NoVersion /\ UNCHANGED <<hoursVars, lateralVars, geogVars, verticalVars, airfieldVars>>

InitVersion ==
    VersionInit /\ AirfieldIdle /\ HoursIdle /\ LateralIdle /\ GeogIdle /\ VerticalIdle

SpecVersion == InitVersion /\ [][VersionNext]_vars

----------------------------------------------------------------------------
(* eaip/__init__.py: get_airfield, for one release date.  The calls are     *)
(* coroutines of one event loop: a call runs without interruption from one  *)
(* await to the next, and another call may run at each await.  A text is a  *)
(* sequence of atoms; an ICAO code is one atom of four characters.          *)

MaxCalls == 2

CallIds == 1..MaxCalls

\* the codes get_airfield is called with; the server publishes the first two
Icaos == {"EGKR", "EGLL", "EGXX"}

Published == {"EGKR", "EGLL"}

\* get_formatted_date(eaip_date) of the release date of the calls
FormattedDate == "2020-12-03"

\* the text of the element of section 2.1 of the page of a published airfield
Section21(icao) ==
    <<"\n", " ", icao, " ", "AD 2.1", " ", "AERODROME LOCATION INDICATOR AND NAME", "\n">>

\* what the server answers for EAIP_AIRFIELD_URL.format(date, icao)
Page(date, icao) ==
    IF icao \in Published THEN [kind |-> "page", raw21 |-> Section21(icao)]
    ELSE [kind |-> "not found"]

\* get_airfield_from_raw_html(html, eaip_date): without the airfield element
\* soup.find gives None and find_all on it raises
AirfieldFromRawHtml(html) ==
    IF html.kind = "page" THEN [kind |-> "Airfield", raw21 |-> html.raw21]
    ELSE Raise("AttributeError")

Whitespace == {" ", "\n"}

RECURSIVE LStrip(_)
LStrip(t) == IF t # <<>> /\ Head(t) \in Whitespace THEN LStrip(Tail(t)) ELSE t

RECURSIVE RStrip(_)
RStrip(t) ==
    IF t # <<>> /\ t[Len(t)] \in Whitespace THEN RStrip(SubSeq(t, 1, Len(t) - 1)) ELSE t

\* str.strip()
Strip(t) == RStrip(LStrip(t))

\* Airfield.icao: self.data['2.1']['raw'].strip()[0:4]; the atoms of the
\* texts of the model that are no ICAO code are one character long or follow one
Airfield_icao(a) == IF Strip(a.raw21) = <<>> THEN "" ELSE Strip(a.raw21)[1]

\* os.path.join(CACHE_DIRECTORY, formatted_date)
CacheDir(date) == <<date>>

\* a variant of CacheUrl that names the file after the date alone
CacheUrlDateOnly(date, icao) == CacheDir(date) \o <<"airfield.bin">>

\* os.path.join(cache_dir, f'{airfield_icao}.bin')
CacheUrl(date, icao) == CacheDir(date) \o <<icao>>

\* pickle.dumps(a): the bytes of the file, and the file just opened with 'wb'
PickleDumps(a) == [kind |-> "bytes", pickled |-> a]

EmptyFile == [kind |-> "bytes", pickled |-> <<>>]

\* pickle.loads(b): EOFError on no data
PickleLoads(b) == IF b.pickled = <<>> THEN Raise("EOFError") ELSE b.pickled

\* os.path.exists(path)
Exists(path) == path \in DOMAIN cache_files

NotCalled ==
    [pc |-> "idle", icao |-> "", bypass |-> FALSE, a |-> None, result |-> Unset,
     read |-> FALSE, fetched |-> FALSE]

\* the cache directory is absent, or holds the files earlier calls wrote
AirfieldInit ==
    /\ cache_dir \in BOOLEAN
    /\ \E cached \in SUBSET Published :
          /\ ~cache_dir => cached = {}
          /\ cache_files =
                [path \in {CacheUrl(FormattedDate, i) : i \in cached} |->
                    PickleDumps(AirfieldFromRawHtml(Page(FormattedDate, path[Len(path)])))]
    /\ calls = [c \in CallIds |-> NotCalled]

\* lines 188-202: the call up to its first await, or to its return from the cache
Call(c, icao, bypass) ==
    /\ calls[c].pc = "idle"
    /\ \A b \in 1..(c - 1) : calls[b].pc # "idle"
    /\ LET url == CacheUrl(FormattedDate, icao)
           hit == ~bypass /\ Exists(url)
       IN  /\ cache_dir' = (cache_dir \/ ~bypass)
           /\ calls' = [calls EXCEPT ![c] =
                 [pc |-> IF hit THEN "done" ELSE "fetch", icao |-> icao, bypass |-> bypass,
                  a |-> None,
                  result |-> IF hit THEN PickleLoads(cache_files[url]) ELSE Unset,
                  read |-> hit, fetched |-> FALSE]]
    /\ UNCHANGED cache_files

\* lines 204-207: the page arrives and is parsed
Fetch(c) ==
    /\ calls[c].pc = "fetch"
    /\ LET a == AirfieldFromRawHtml(Page(FormattedDate, calls[c].icao))
       IN  calls' = [calls EXCEPT ![c] =
                IF a.kind = "raise"
                THEN [@ EXCEPT !.pc = "done", !.result = a, !.fetched = TRUE]
                ELSE [@ EXCEPT !.pc = "open", !.a = a, !.fetched = TRUE]]
    /\ UNCHANGED <<cache_dir, cache_files>>

\* line 209: aiofiles.open(cache_url, 'wb') creates or truncates the file
OpenCache(c) ==
    /\ calls[c].pc = "open"
    /\ LET url == CacheUrl(FormattedDate, calls[c].icao)
       IN  IF cache_dir
           THEN /\ cache_files' = (url :> EmptyFile) @@ cache_files
                /\ calls' = [calls EXCEPT ![c].pc = "write"]
           ELSE /\ calls' = [calls EXCEPT ![c].pc = "done",
                                          ![c].result = Raise("FileNotFoundError")]
                /\ UNCHANGED cache_files
    /\ UNCHANGED cache_dir

\* lines 210-211: the pickled airfield is written, the file closed, a returned
WriteCache(c) ==
    /\ calls[c].pc = "write"
    /\ LET url == CacheUrl(FormattedDate, calls[c].icao)
       IN  cache_files' = (url :> PickleDumps(calls[c].a)) @@ cache_files
    /\ calls' = [calls EXCEPT ![c].pc = "done", ![c].result = calls[c].a]
    /\ UNCHANGED cache_dir

AirfieldNext ==
    \/ (\E c \in CallIds, icao \in Icaos, bypass \in BOOLEAN : Call(c, icao, bypass))
           /\ UNCHANGED <<hoursVars, lateralVars, geogVars, verticalVars, versionVars>>
    \/ (\E c \in CallIds : Fetch(c))
           /\ UNCHANGED <<hoursVars, lateralVars, geogVars, verticalVars, versionVars>>
    \/ (\E c \in CallIds : OpenCache(c))
           /\ UNCHANGED <<hoursVars, lateralVars, geogVars, verticalVars, versionVars>>
    \/ (\E c \in CallIds : WriteCache(c))
           /\ UNCHANGED <<hoursVars, lateralVars, geogVars, verticalVars, versionVars>>

InitAirfield ==
    AirfieldInit /\ VersionIdle /\ HoursIdle /\ LateralIdle /\ GeogIdle /\ VerticalIdle

SpecAirfield == InitAirfield /\ [][AirfieldNext]_vars

----------------------------------------------------------------------------
(* Properties of get_operating_hours_from_string *)

\* the identifier "H24" was produced by findall, at whatever position
H24Recognised == \E i \in 1..Len(raw) : raw[i] = <<"H24">>

\* the call reached its return statement and built an OperatingHours
ConstructorCalled == pc = "done" /\ HasTokens(raw) /\ NextIdentifier(raw, pos) = 0

FullDay == <<TimeMin, TimeMax>>

\* the time of day written "hhmm"
ClockOf(a) == <<DigitValue[a] \div 100, DigitValue[a] % 100, 0, 0>>

RangeOf(p) == <<ClockOf(p[1]), ClockOf(p[2])>>

\* the week holding range rg on the days of r (base 0) and no hours elsewhere
WeekWith(r, rg) == [d \in 1..8 |-> IF (d - 1) \in r[1]..r[2] THEN rg ELSE <<>>]

\* C2: whenever "H24" is recognised at any position of the token sequence,
\* the call returns a schedule whose is_24_hr flag is true.
C2_H24AnywhereIs24Hr ==
    (pc = "done" /\ H24Recognised) =>
        (result.kind = "OperatingHours" /\ result.is_24_hr)

\* C3: an OperatingHours constructed with is_24_hr true is constructed
\* successfully, every one of the 8 day slots of both weeks holds the
\* full-day range, and the summer week equals the regular week.
C3_ContinuousFillsBothWeeks ==
    (ConstructorCalled /\ is_24_hr) =>
        /\ result.kind = "OperatingHours"
        /\ \A d \in 1..8 : result.hours[d] = FullDay /\ result.summer[d] = FullDay
        /\ result.summer = result.hours

\* C4: for a text "D1-D2 hhmm-hhmm" (D1 not after D2 in Mon..Sun, hhmm clock
\* times) the regular week holds that range on exactly the days D1..D2 and
\* no hours on any other day, PH included, and the summer week holds no hours.
C4_DayRangeWithTimePair ==
    \A r \in WeekRanges, p \in Pairs :
        (pc = "done" /\ text = RangeText(r, p)) =>
            /\ result.kind = "OperatingHours"
            /\ result.hours = WeekWith(r, RangeOf(p))
            /\ result.summer = NoHours

C4_Witness ==
    /\ pc = "done"
    /\ text = RangeText(<<1, 4>>, <<"0700", "1630">>)
    /\ result.kind = "OperatingHours"
    /\ result.hours[2] = <<<<7, 0, 0, 0>>, <<16, 30, 0, 0>>>>
    /\ result.hours[1] = <<>>

\* C5: for "<day-range> <pair1> (Summer) <pair2> (Winter)" the regular week
\* holds pair2 on the days of the day-range, the summer week holds pair1 on
\* the same days, and every other day is empty in both weeks.
C5_SummerWinterWeeks ==
    \A r \in WeekRanges, p1 \in SeasonPairs, p2 \in SeasonPairs :
        (pc = "done" /\ text = SeasonalText(r, p1, p2)) =>
            /\ result.kind = "OperatingHours"
            /\ result.hours = WeekWith(r, RangeOf(p2))
            /\ result.summer = WeekWith(r, RangeOf(p1))

\* C6: when one day-selector declares the day-ranges R1 and R2, the first
\* completed time pair is applied to every day of R1, the first declared
\* range, and a second pair to every day of R2 (the ranges are consumed one
\* at a time in the order declared).
C6_FirstDeclaredRangeFirst ==
    \A r1 \in ListRanges, sep \in ListSeps, r2 \in ListRanges, ps \in PairSeqs :
        (pc = "done" /\ text = ListText(r1, sep, r2, ps)) =>
            /\ result.kind = "OperatingHours"
            /\ \A d \in r1[1]..r1[2] :
                  (Len(ps) = 1 \/ d \notin r2[1]..r2[2]) => result.hours[d + 1] = RangeOf(ps[1])
            /\ Len(ps) = 2 => \A d \in r2[1]..r2[2] : result.hours[d + 1] = RangeOf(ps[2])

\* C10: the call returns None exactly when the text holds no recognised
\* token; in particular it does not raise on the empty string or on a text
\* without schedule tokens.
C10_NoneIffNoTokens ==
    pc = "done" => (result.kind = "None" <=> FindAll(text) = <<>>)

C10_Witness ==
    /\ pc = "done"
    /\ text = <<"x", " ", "Daylight">>
    /\ FindAll(text) = <<>>
    /\ result.kind = "None"

\* the positions of the text holding the daylight-only marker
DaylightMarkers == {i \in 1..Len(text) : text[i] = "Daylight"}

\* s ends with the sequence e
EndsWith(s, e) == Len(e) <= Len(s) /\ SubSeq(s, Len(s) - Len(e) + 1, Len(s)) = e

\* "Daylight D1-D2 hhmm-hhmm"
DaylightText(r, p) == Join(<<<<"Daylight">>, Selector(r), PairWord(p)>>)

\* C11: a daylight-only marker in the text sets is_daylight and does not stop
\* the scan: the day selectors and time pairs after the marker are tokenised
\* as they are without it, and their ranges are committed to the schedule.
C11_DaylightContinuesScan ==
    (pc = "done" /\ DaylightMarkers # {}) =>
        /\ result.kind = "OperatingHours" => result.is_daylight
        /\ \A i \in DaylightMarkers :
              EndsWith(FindAll(text), FindAll(SubSeq(text, i + 1, Len(text))))
        /\ \A r \in WeekRanges, p \in Pairs :
              text = DaylightText(r, p) =>
                  /\ result.kind = "OperatingHours"
                  /\ result.hours = WeekWith(r, RangeOf(p))

\* the identifier the next execution of the loop body works on
CurrentIdentifier == raw[NextIdentifier(raw, pos)]

\* a step of the loop that did not raise
Scanned == pc = "scan" /\ pc' = "scan"

\* a step of the loop that completed a time pair and committed it
Committed == Scanned /\ current_hours[1] # <<>> /\ current_hours' = <<<<>>, <<>>>>

\* the range a committing step writes: the stored start and the time of the
\* identifier that completes the pair
CommittedRange == <<current_hours[1], StrpTime(CurrentIdentifier)>>

\* the days (base 0) a committing step writes
CommittedDays == day_range'[1]..day_range'[2]

\* week w holds range rg on every one of the days ds
HoldsOn(w, ds, rg) == \A d \in ds : w[d + 1] = rg

\* C18: the summer flag starts false, becomes true on "(" or "Summer" and
\* false on ")" or "Winter" and is left alone by every other token; a
\* committed time pair is written to the summer week if the flag is true when
\* the pair completes and to the regular week otherwise, never to both.
C18_SummerFlagRouting ==
    [][/\ (pc = "start" /\ pc' = "scan") => ~is_summer'
       /\ Scanned =>
             is_summer' = IF CurrentIdentifier \in {<<"(">>, <<"Summer">>} THEN TRUE
                          ELSE IF CurrentIdentifier \in {<<")">>, <<"Winter">>} THEN FALSE
                          ELSE is_summer
       /\ Committed =>
             IF is_summer'
             THEN HoldsOn(summer_hours', CommittedDays, CommittedRange) /\ hours' = hours
             ELSE HoldsOn(hours', CommittedDays, CommittedRange) /\ summer_hours' = summer_hours
      ]_vars

C18_Witness ==
    /\ pc = "done"
    /\ text = FlagText(<<"Summer">>, <<"0800", "1630">>, <<"Winter">>, <<"0700", "1600">>)
    /\ result.kind = "OperatingHours"
    /\ result.summer = WeekWith(<<0, 7>>, RangeOf(<<"0800", "1630">>))
    /\ result.hours = WeekWith(<<0, 7>>, RangeOf(<<"0700", "1600">>))

\* the "start-end" time tokens of the text: groups 6 and 7 of each match
TimeTokens ==
    {<<FindAll(text)[k][6], FindAll(text)[k][7]>> :
        k \in {j \in 1..Len(FindAll(text)) : FindAll(text)[j][6] # <<>>}}

\* range rg has both endpoints from one time token
FromOneToken(rg) ==
    \E tk \in TimeTokens :
        /\ IsDigit(tk[1]) /\ IsDigit(tk[2])
        /\ rg = <<StrpTime(tk[1]), StrpTime(tk[2])>>

\* C19: every range committed to a day has both endpoints from one and the
\* same "start-end" token of the text: an endpoint that is not stored ("SS",
\* or a value of 2400 or more) never makes a start from one token pair with
\* a time from a later token.
C19_EndpointsFromOneToken ==
    \A d \in 1..8 :
        /\ hours[d] # <<>> => FromOneToken(hours[d])
        /\ summer_hours[d] # <<>> => FromOneToken(summer_hours[d])

\* a day slot holds no hours, or one range of two times of day
OneRangeOrNone(slot) ==
    \/ slot = <<>>
    \/ /\ Len(slot) = 2
       /\ \A e \in 1..2 : Len(slot[e]) = 4 /\ slot[e][1] \in 0..23 /\ slot[e][2] \in 0..59

\* week w2 is week w1 with range rg in place of whatever the days ds held,
\* and every other day as it was
Overwritten(w1, w2, ds, rg) ==
    \A d \in 0..7 : w2[d + 1] = IF d \in ds THEN rg ELSE w1[d + 1]

\* C20: each day slot of each week holds either no hours or exactly one
\* range, the most recently committed range whose day-range covers the day:
\* a commit replaces what the covered days of its week held, leaves every
\* other slot as it was, and nothing but a commit changes a slot.
C20_SlotHoldsLastCommit ==
    [][/\ \A d \in 1..8 : OneRangeOrNone(hours'[d]) /\ OneRangeOrNone(summer_hours'[d])
       /\ IF Committed
          THEN \/ Overwritten(hours, hours', CommittedDays, CommittedRange)
                    /\ summer_hours' = summer_hours
               \/ Overwritten(summer_hours, summer_hours', CommittedDays, CommittedRange)
                    /\ hours' = hours
          ELSE hours' = hours /\ summer_hours' = summer_hours
       /\ (pc = "scan" /\ pc' = "done" /\ result'.kind = "OperatingHours") =>
              result'.hours = hours /\ result'.summer = summer_hours
      ]_vars

C20_Witness ==
    /\ pc = "done"
    /\ text = SeasonalText(<<0, 4>>, <<"0800", "1630">>, <<"0700", "1600">>)
    /\ result.kind = "OperatingHours"
    /\ result.hours = WeekWith(<<0, 4>>, RangeOf(<<"0700", "1600">>))

----------------------------------------------------------------------------
(* Properties of the lateral limits *)

\* the description of data0, when data0 holds the newline that starts it
HasDescription == Descriptor(data0).kind = "str"

Description == Descriptor(data0).v

\* C1: in a boundary of n >= 2 segments, the end of the segment at position
\* i is the start of the segment at position (i + 1) mod n: every segment
\* ends where the next one starts, the last one where the first one starts.
C1_SegmentsChained ==
    (lateral_lines.kind = "list" /\ Len(lateral_lines.v) >= 2) =>
        \A i \in 1..Len(lateral_lines.v) :
            ends[i].kind # "unset" =>
                /\ ends[i].kind = "value"
                /\ ends[i].v = Line_start(lateral_lines.v[(i % Len(lateral_lines.v)) + 1])

\* C8: whenever the whole description matches the circle pattern,
\* Airspace.lateral is that Circle and not a list of Line, Arc or Parallel
\* segments, also when the description holds " - " delimiters whose parts
\* match a segment pattern.
C8_CircleExcludesSegments ==
    (lateral.kind # "unset" /\ HasDescription /\ CircleSearch(Description) # <<>>) =>
        /\ lateral.kind = "Circle"
        /\ lateral.data = CircleSearch(Description)

C8_Witness ==
    /\ lateral.kind = "Circle"
    /\ \E i \in 1..Len(Description) : Description[i] = "-"
    /\ lateral_lines.kind = "list"
    /\ Len(lateral_lines.v) >= 1

\* the positions of the descriptors of the description that match one of
\* the Arc, Line and Parallel patterns
MatchedDescriptors ==
    LET descriptors == SplitAt(Description, {"-"})
    IN  {j \in 1..Len(descriptors) :
            \E ty \in {"Arc", "Line", "Parallel"} : Search(ty, descriptors[j]) # <<>>}

FirstOfArcLineParallel(d) ==
    IF ArcSearch(d) # <<>> THEN "Arc"
    ELSE IF LineSearch(d) # <<>> THEN "Line"
    ELSE IF ParallelSearch(d) # <<>> THEN "Parallel"
    ELSE "None"

\* the shapes of the matching descriptors of the description, in their order
ShapesArcLineParallel ==
    LET descriptors == SplitAt(Description, {"-"})
    IN  SelectSeq([j \in 1..Len(descriptors) |-> FirstOfArcLineParallel(descriptors[j])],
                  LAMBDA k : k # "None")

\* C17: the shape lateral_lines chooses for a descriptor is the first match
\* when the patterns are tried in the order Arc, Line, Parallel; a descriptor
\* matching the Arc pattern is never classified as Line or Parallel.
C17_ShapeIsFirstOfArcLineParallel ==
    lateral_lines.kind = "list" =>
        [i \in 1..Len(lateral_lines.v) |-> lateral_lines.v[i].kind] = ShapesArcLineParallel

C17_Witness ==
    /\ lateral_lines.kind = "list"
    /\ Len(SplitAt(Description, {"-"})) = 1
    /\ ArcSearch(Description) # <<>>
    /\ ParallelSearch(Description) # <<>>
    /\ Len(lateral_lines.v) = 1
    /\ lateral_lines.v[1].kind = "Arc"

----------------------------------------------------------------------------
(* Properties of the coordinates and of the radius *)

\* 90 and 180 degrees in arc-seconds
MaxLatitude == 90 * 3600

MaxLongitude == 180 * 3600

\* value v decoded with hemisphere letter dir lies within lim of zero and is
\* negative exactly when the letter is S or W and the magnitude is not zero
CoordinateOK(v, dir, lim) ==
    /\ (0 - lim) <= v /\ v <= lim
    /\ (v < 0) <=> (dir \in {"S", "W"} /\ v # 0)

PointOK(pt, latdir, londir) ==
    CoordinateOK(pt[1], latdir, MaxLatitude) /\ CoordinateOK(pt[2], londir, MaxLongitude)

\* C12: every coordinate the boundary parser produces (Line, Parallel and
\* Arc start, Arc centre, Circle centre) for a text its pattern accepts has
\* its latitude in [-90, 90] and its longitude in [-180, 180], and is
\* negative exactly when the hemisphere letter is S or W and the magnitude
\* is not zero.
C12_CoordinatesInRange ==
    /\ \A i \in DOMAIN starts :
          PointOK(starts[i], lateral_lines.v[i].data[4], lateral_lines.v[i].data[8])
    /\ \A i \in DOMAIN centres :
          PointOK(centres[i], lateral_lines.v[i].data[14], lateral_lines.v[i].data[18])
    /\ circle_centre.kind = "value" =>
          PointOK(circle_centre.v, lateral_circle.data[5], lateral_circle.data[9])

\* C13: for a description "A circle <number> NM radius centred on <point>",
\* Circle.radius is the complete number written before " NM", all its
\* integer digits and its decimal part: 10 for "10 NM", 2.5 for "2.5 NM".
C13_RadiusIsWholeNumber ==
    \A num \in NumberAtoms, pt \in GeogPoints :
        (circle_radius.kind = "value" /\ Description = CircleText(num, pt)) =>
            circle_radius.v = FloatTenths[num]

----------------------------------------------------------------------------
(* Properties of the vertical limits *)

\* "<digits> FT ALT" or "<digits> FT AGL"
IsAltitudeText(t) ==
    /\ Len(t) >= 3
    /\ AllDigits(SubSeq(t, 1, Len(t) - 2))
    /\ t[Len(t) - 1] = " FT "
    /\ t[Len(t)] \in {"ALT", "AGL"}

\* "FL<digits>"
IsFlightLevelText(t) == Len(t) >= 2 /\ t[1] = "FL" /\ AllDigits(Tail(t))

HeightIs(n) == height.kind # "unset" => (height.kind = "value" /\ height.v = n)

\* C7: the matcher returns Altitude{feet = n, above_ground_level = (suffix
\* is AGL)} for "<digits n> FT ALT|AGL", Level of height 0 for "SFC", Level
\* of height n for "FL<digits n>", and None, with no exception, for every
\* other text, "FL" without digits and "SFC" followed by digits included.
C7_VerticalMatcherResults ==
    vertical.kind # "unset" =>
        CASE IsAltitudeText(limit) ->
                /\ vertical.kind = "Altitude"
                /\ HeightIs(IntOf(SubSeq(limit, 1, Len(limit) - 2)))
                /\ above_ground_level.kind # "unset" =>
                      above_ground_level.v = (limit[Len(limit)] = "AGL")
          [] limit = <<"SFC">> ->
                vertical.kind = "Level" /\ HeightIs(0)
          [] IsFlightLevelText(limit) ->
                vertical.kind = "Level" /\ HeightIs(IntOf(Tail(limit)))
          [] OTHER -> vertical.kind = "None"

----------------------------------------------------------------------------
(* Properties of __get_current_version *)

\* the days of the month whose index page answers 200
ReleaseDays == {d \in MonthDays : month_status[d] = 200}

\* C15: the call returns the latest date of the current month whose index
\* page answers 200, whatever the order in which the requests complete, and
\* None when no day of the month answers 200.
C15_LatestReleaseOfMonth ==
    vpc = "done" =>
        version = IF ReleaseDays = {} THEN None ELSE Date(Max(ReleaseDays))

----------------------------------------------------------------------------
(* Properties of get_airfield *)

\* the airfield a fetch of the page of icao gives
Fresh(icao) == AirfieldFromRawHtml(Page(FormattedDate, icao))

\* C14: a call with bypass_cache=True never reads the file-system cache and
\* always fetches the page, and it returns the freshly fetched Airfield
\* whatever the state of the cache: directory missing, file absent, file
\* present.
C14_BypassAlwaysReturnsFresh ==
    \A c \in CallIds :
        (calls[c].pc = "done" /\ calls[c].bypass) =>
            /\ ~calls[c].read
            /\ calls[c].fetched
            /\ calls[c].icao \in Published => calls[c].result = Fresh(calls[c].icao)

\* C16: every call that returns gives an Airfield whose icao is the
\* airfield_icao of the call, whether it came from the network or from the
\* file-system cache.
C16_ReturnedIcaoIsRequested ==
    \A c \in CallIds :
        (calls[c].pc = "done" /\ calls[c].result.kind = "Airfield") =>
            Airfield_icao(calls[c].result) = calls[c].icao

C16_Witness ==
    /\ calls[1].pc = "done" /\ calls[1].fetched /\ calls[1].icao = "EGKR"
    /\ calls[1].result.kind = "Airfield"
    /\ calls[2].pc = "done" /\ calls[2].read /\ calls[2].icao = "EGLL"
    /\ calls[2].result.kind = "Airfield"
    /\ Airfield_icao(calls[2].result) = "EGLL"

\* the calls made so far
Started == {c \in CallIds : calls[c].pc # "idle"}

\* every call made so far is for the same airfield, with bypass_cache=False
SameAirfieldCached ==
    \A c \in Started, b \in Started : calls[c].icao = calls[b].icao /\ ~calls[c].bypass

\* C21: in any interleaving of concurrent calls for the same airfield and
\* date with bypass_cache=False, a call that takes the cache-hit path never
\* reads a file another call has created but not yet completely written:
\* every cache read sees the complete pickled Airfield.
C21_CacheReadSeesCompleteFile ==
    SameAirfieldCached =>
        \A c \in Started : calls[c].read => calls[c].result.kind = "Airfield"

====
